---- MODULE Spec2Model ----
(***************************************************************************)
(* Model of src/src/index.ts: the recurring sweep that polls the score     *)
(* source for every (user, mode), deduplicates results against the Score   *)
(* table, posts an embed for each new result and prunes the table.         *)
(*                                                                         *)
(* Each `await` of the timer callback is one action, so that two callbacks *)
(* started by the timer can interleave exactly where the event loop lets   *)
(* them.  node-cron starts the callback on every matching second and does  *)
(* not wait for an earlier invocation to settle.  A rejection of the async *)
(* callback ends that invocation only.                                     *)
(***************************************************************************)
EXTENDS Integers, Sequences, FiniteSets, TLC

\* ------------------------------------------------------------------ bounds
\* users.length in the sweep model (at most Len(usernames))
MaxRoster == 1
\* the most results one getUserScores call returns (the upstream page size)
MaxList == 6
\* plays the users make after start-up
MaxNew == 2
\* timer callbacks in flight at the same time
MaxSweeps == 2
\* firings of the timer after start-up
MaxTicks == 2
\* restarts of the process
MaxRestarts == 1
\* the highest value of one counter of score.statistics
MaxHits == 1

\* ------------------------------------------------------- program constants
\* userScores.length > 10 / userScores[10]
Keep == 10
\* for (let mode = 0; mode <= 3; mode++)
LastMode == 3
\* modes.length
ModeCount == 4
\* usernames.length
RosterSize == 3
\* seconds field of a cron expression: 0..59
SecondsPerMinute == 60

usernames == <<12241009, 22248746, 37516721>>

\* osu.Ruleset: 0 osu, 1 taiko, 2 fruits, 3 mania; beatmap.mode is the name
ModeName(m) == <<"osu", "taiko", "fruits", "mania">>[m + 1]

Modes == 0..LastMode

VARIABLES
  users,      \* users.length: how many of usernames resolved at start-up
  played,     \* upstream: played[u][m] = plays of user u in ruleset m so far
  newPlays,   \* plays made since start-up
  store,      \* the Score table: set of rows
  nextId,     \* sqlite AUTOINCREMENT: the id the next row gets
  scheduled,  \* TRUE once cron.schedule has registered the task
  ticks,      \* firings of the timer so far
  sweep,      \* sweep[s]: the invocation of the timer callback in slot s
  lastEvent,  \* the last start or end of an invocation (see Tick, Outcome)
  sent,       \* channel.send calls that succeeded, per result
  ever,       \* every row ever created
  sec,        \* wall clock: second of the minute
  since,      \* seconds since the timer last fired (-1: it never fired)
  gap,        \* seconds between the last two firings (0: fewer than two)
  lastCreate, \* the last Score.create call: its values and whether it resolved
  boot,       \* boot.n: restarts so far; boot.rows: the table at the last one
  score,      \* the score object handed to fixScore and createScoreEmbed
  embed,      \* what lines 125-128 made of it
  fired       \* firings of the timer in the current minute of the wall clock

vars == <<users, played, newPlays, store, nextId,
          scheduled, ticks, sweep, lastEvent, sent, ever, sec, since, gap, lastCreate,
          boot, score, embed, fired>>

clockVars == <<sec, since, gap, lastCreate, boot, score, embed, fired>>
createFrame == <<sec, since, gap, boot, score, embed, fired>>
timerVars == <<scheduled, ticks>>
dbVars == <<store, nextId, ever>>
upVars == <<played, newPlays>>

Slots == 1..MaxSweeps

\* ------------------------------------------------------------ score source
\* user.id of users[u]
UserId(u) == usernames[u]

\* id of the n-th play of user u in ruleset m
ScoreId(u, m, n) == ((u - 1) * ModeCount + m) * 100 + n

\* the score object of that play: score.id, score.user.id, score.beatmap.mode
RawResult(u, m, n) ==
  [id |-> ScoreId(u, m, n), user |-> UserId(u), mode |-> ModeName(m)]

Min(a, b) == IF a < b THEN a ELSE b

\* getUserScores(user, "recent", mode) after cnt plays: most recent first
Recent(u, m, cnt) ==
  [j \in 1..Min(cnt, MaxList) |-> RawResult(u, m, cnt + 1 - j)]

\* ------------------------------------------------------------- Score table
Row(i, r) == [id |-> i, userId |-> r.user, scoreId |-> r.id, gamemode |-> r.mode]

\* Exists if the where clause of findOne matched no row
FindsNothing(st, r) == FALSE

\* Score.findOne({where: {userId, scoreId, gamemode}})
Exists(st, r) ==
  \E row \in st : row.userId = r.user /\ row.scoreId = r.id /\ row.gamemode = r.mode

\* Conflicts if scoreId were not declared unique
NeverConflicts(st, r) == FALSE

\* scoreId is declared unique: true
Conflicts(st, r) == \E row \in st : row.scoreId = r.id

Partition(st, uid, gm) == {row \in st : row.userId = uid /\ row.gamemode = gm}

\* ids of a set of rows, highest first: position j holds the id with j - 1
\* ids above it
DescIds(rows) ==
  LET ids == {row.id : row \in rows}
  IN [j \in 1..Cardinality(ids) |->
        CHOOSE i \in ids : Cardinality({x \in ids : x > i}) = j - 1]

\* FindAllIds if the where clause of findAll left out gamemode
FindAllAnyMode(st, uid, gm) == DescIds({row \in st : row.userId = uid})

\* Score.findAll({where: {userId, gamemode}, order: [["id", "DESC"]]})
FindAllIds(st, uid, gm) == DescIds(Partition(st, uid, gm))

\* if (userScores.length > 10) destroy userScores[10]; 0 when nothing to destroy
Victim(ids) == IF Len(ids) > Keep THEN ids[Keep + 1] ELSE 0

\* Score.destroy({where: {id}})
Destroyed(st, vid) == {row \in st : row.id # vid}

\* lines 130-137 on the table st for users[u].id = uid and beatmap.mode = gm
PruneOnce(st, uid, gm) ==
  LET vid == Victim(FindAllIds(st, uid, gm))
  IN IF vid = 0 THEN st ELSE Destroyed(st, vid)

NoCreate == [r |-> [id |-> 0, user |-> 0, mode |-> ""], ok |-> FALSE]

\* the process has not been restarted
NoBoot == [n |-> 0, rows |-> {}]

\* a statistics counter the payload does not carry (undefined)
Absent == -1

NoStatistics ==
  [miss |-> Absent, meh |-> Absent, ok |-> Absent, good |-> Absent,
   perfect |-> Absent, great |-> Absent]

\* no score is being rendered
NoScore == [accuracy |-> 0, mode |-> "", rank |-> "", statistics |-> NoStatistics]

NoEmbed == [kind |-> "none"]

\* ------------------------------------------------------------ earlier runs
\* scores.sqlite is kept across runs (storage: "scores.sqlite", and
\* sequelize.sync() keeps existing rows).  EarlierRows(n) is the table an
\* earlier run left after users[1] made n <= Keep plays in ruleset 0 and a
\* sweep ran after every MaxList of them: a sweep creates the rows of the
\* plays it sees for the first time in list order, most recent play first.
EarlierId(p, n) ==
  LET first == ((p - 1) \div MaxList) * MaxList
      top == Min(first + MaxList, n)
  IN first + (top - p) + 1

EarlierRows(n) == {Row(EarlierId(p, n), RawResult(1, 0, p)) : p \in 1..n}

\* ------------------------------------------------------------------- sweeps
\* absent and posted record what the invocation did so far: the results
\* findOne did not find, and the results channel.send posted, in order
IdleSlot ==
  [pc |-> "idle", u |-> 0, mode |-> 0, scores |-> <<>>, k |-> 0, victim |-> 0,
   channelOk |-> TRUE, absent |-> <<>>, posted |-> <<>>]

\* the first invocation after a rejected or a skipped one is told apart
StartEvent(ev) ==
  IF ev = "rejected" THEN "startedAfterRejected"
  ELSE IF ev = "skipped" THEN "startedAfterSkipped"
  ELSE "started"

Running(s) == sweep[s].pc # "idle"

\* the callback returned or rejected: the invocation is over
Ended(sl) == IdleSlot

\* the next iteration of the three nested loops after result k is finished
NextIteration(sl) ==
  IF sl.k < Len(sl.scores) THEN [sl EXCEPT !.pc = "findOne", !.k = sl.k + 1]
  ELSE IF sl.mode < LastMode
       THEN [sl EXCEPT !.pc = "fetch", !.mode = sl.mode + 1, !.scores = <<>>, !.k = 0]
  ELSE IF sl.u < users
       THEN [sl EXCEPT !.pc = "fetch", !.u = sl.u + 1, !.mode = 0, !.scores = <<>>, !.k = 0]
  ELSE Ended(sl)

\* ----------------------------------------------------------------- actions
Init ==
  /\ users \in 1..MaxRoster
  /\ \E n \in {0, Keep} :
       /\ played = [u \in 1..users |-> [m \in Modes |-> IF u = 1 /\ m = 0 THEN n ELSE 0]]
       /\ store = EarlierRows(n)
       /\ ever = EarlierRows(n)
       /\ nextId = n + 1
  /\ newPlays = 0
  /\ scheduled = FALSE
  /\ ticks = 0
  /\ sweep = [s \in Slots |-> IdleSlot]
  /\ lastEvent = "none"
  /\ sent = [r \in {RawResult(1, 0, p) : p \in 1..played[1][0]} |-> 1]
  /\ sec = 0
  /\ since = -1
  /\ gap = 0
  /\ lastCreate = NoCreate
  /\ boot = NoBoot
  /\ score = NoScore
  /\ embed = NoEmbed
  /\ fired = 0

\* client.on(Events.ClientReady, ...): cron.schedule registers the task
ClientReady ==
  /\ ~scheduled
  /\ scheduled' = TRUE
  /\ UNCHANGED <<users, upVars, dbVars, ticks, sweep, lastEvent, sent, clockVars>>

\* the slot a new invocation takes: the lowest one not running
FreeSlot(s) == ~Running(s) /\ \A o \in Slots : o < s => Running(o)

\* Started without the early return: the callback goes on without a channel
StartedAnyway(sl, ok) ==
  [sl EXCEPT !.pc = "fetch", !.u = 1, !.mode = 0, !.channelOk = ok]

\* the slot after the channel check of lines 96-103
Started(sl, ok) ==
  IF ok THEN [sl EXCEPT !.pc = "fetch", !.u = 1, !.mode = 0, !.channelOk = TRUE]
  ELSE Ended(sl)

\* lastEvent after a step that leaves the slot as sl2
Outcome(sl2, how) == IF sl2.pc = "idle" THEN how ELSE lastEvent

\* TimerAfterRejection if a rejection stopped the task
TimerStopped(sch) == FALSE

\* the task stays scheduled when an invocation of the callback rejects:
\* nothing in the callback stops the task, and the scheduler catches the
\* rejection of the promise the callback returns
TimerAfterRejection(sch) == sch

\* the timer fires: the callback runs up to its first await
Tick(s) ==
  /\ scheduled
  /\ ticks < MaxTicks
  /\ FreeSlot(s)
  /\ ticks' = ticks + 1
  /\ \E ok \in BOOLEAN :
       LET sl2 == Started(sweep[s], ok)
       IN /\ sweep' = [sweep EXCEPT ![s] = sl2]
          /\ lastEvent' = IF sl2.pc = "idle" THEN "skipped" ELSE StartEvent(lastEvent)
  /\ UNCHANGED <<users, upVars, dbVars, scheduled, sent, clockVars>>

\* await api.getUserScores(user, "recent", mode) resolves
FetchOk(s) ==
  /\ sweep[s].pc = "fetch"
  /\ LET sl == sweep[s] IN
     \E add \in 0..(MaxNew - newPlays) :
       LET cnt == played[sl.u][sl.mode] + add
           got == [sl EXCEPT !.scores = Recent(sl.u, sl.mode, cnt), !.k = 0]
           sl2 == NextIteration(got)
       IN /\ played' = [played EXCEPT ![sl.u][sl.mode] = cnt]
          /\ newPlays' = newPlays + add
          /\ sweep' = [sweep EXCEPT ![s] = sl2]
          /\ lastEvent' = Outcome(sl2, "done")
  /\ UNCHANGED <<users, dbVars, timerVars, sent, clockVars>>

\* how the invocation goes on after getUserScores rejected
AfterFetchError(sl) == Ended(sl)

\* await api.getUserScores(...) rejects
FetchFail(s) ==
  /\ sweep[s].pc = "fetch"
  /\ LET sl2 == AfterFetchError(sweep[s])
     IN /\ sweep' = [sweep EXCEPT ![s] = sl2]
        /\ lastEvent' = Outcome(sl2, "rejected")
        /\ scheduled' = IF sl2.pc = "idle" THEN TimerAfterRejection(scheduled)
                        ELSE scheduled
  /\ UNCHANGED <<users, upVars, dbVars, ticks, sent, clockVars>>

Current(s) == sweep[s].scores[sweep[s].k]

\* await Score.findOne(...) resolves; if (!exists)
FindOne(s) ==
  /\ sweep[s].pc = "findOne"
  /\ sweep' = [sweep EXCEPT ![s] =
                 IF Exists(store, Current(s)) THEN [@ EXCEPT !.pc = "findAll"]
                 ELSE [@ EXCEPT !.pc = "create", !.absent = Append(@, Current(s))]]
  /\ UNCHANGED <<users, upVars, dbVars, timerVars, lastEvent, sent, clockVars>>

\* await Score.create(...) resolves
CreateOk(s) ==
  /\ sweep[s].pc = "create"
  /\ ~Conflicts(store, Current(s))
  /\ store' = store \cup {Row(nextId, Current(s))}
  /\ ever' = ever \cup {Row(nextId, Current(s))}
  /\ nextId' = nextId + 1
  /\ sweep' = [sweep EXCEPT ![s].pc = "send"]
  /\ lastCreate' = [r |-> Current(s), ok |-> TRUE]
  /\ UNCHANGED <<users, upVars, timerVars, lastEvent, sent, createFrame>>

\* how the invocation goes on after Score.create rejected
AfterCreateError(sl) == Ended(sl)

\* await Score.create(...) rejects: SequelizeUniqueConstraintError on scoreId
CreateFail(s) ==
  /\ sweep[s].pc = "create"
  /\ Conflicts(store, Current(s))
  /\ LET sl2 == AfterCreateError(sweep[s])
     IN /\ sweep' = [sweep EXCEPT ![s] = sl2]
        /\ lastEvent' = Outcome(sl2, "rejected")
        /\ scheduled' = IF sl2.pc = "idle" THEN TimerAfterRejection(scheduled)
                        ELSE scheduled
  /\ lastCreate' = [r |-> Current(s), ok |-> FALSE]
  /\ UNCHANGED <<users, upVars, dbVars, ticks, sent, createFrame>>

Count(f, r) == IF r \in DOMAIN f THEN f[r] ELSE 0

\* createScoreEmbed(fixScore(score)) returns and await channel.send(...) resolves
SendOk(s) ==
  /\ sweep[s].pc = "send"
  /\ LET r == Current(s) IN
       sent' = [x \in DOMAIN sent \cup {r} |->
                  IF x = r THEN Count(sent, r) + 1 ELSE sent[x]]
  /\ sweep' = [sweep EXCEPT ![s].pc = "findAll",
                            ![s].posted = Append(@, Current(s))]
  /\ UNCHANGED <<users, upVars, dbVars, timerVars, lastEvent, clockVars>>

\* how the invocation goes on after the embed builder threw or send rejected
AfterSendError(sl) == Ended(sl)

\* createScoreEmbed throws (setColor of a grade that colors lacks), or
\* await channel.send(...) rejects
SendFail(s) ==
  /\ sweep[s].pc = "send"
  /\ LET sl2 == AfterSendError(sweep[s])
     IN /\ sweep' = [sweep EXCEPT ![s] = sl2]
        /\ lastEvent' = Outcome(sl2, "rejected")
        /\ scheduled' = IF sl2.pc = "idle" THEN TimerAfterRejection(scheduled)
                        ELSE scheduled
  /\ UNCHANGED <<users, upVars, dbVars, ticks, sent, clockVars>>

\* await Score.findAll(...) resolves; if (userScores.length > 10)
FindAll(s) ==
  /\ sweep[s].pc = "findAll"
  /\ LET sl == sweep[s]
         vid == Victim(FindAllIds(store, UserId(sl.u), Current(s).mode))
         sl2 == IF vid = 0 THEN NextIteration(sl)
                ELSE [sl EXCEPT !.pc = "destroy", !.victim = vid]
     IN /\ sweep' = [sweep EXCEPT ![s] = sl2]
        /\ lastEvent' = Outcome(sl2, "done")
  /\ UNCHANGED <<users, upVars, dbVars, timerVars, sent, clockVars>>

\* await Score.destroy({where: {id: userScores[10].get("id")}}) resolves
Destroy(s) ==
  /\ sweep[s].pc = "destroy"
  /\ store' = Destroyed(store, sweep[s].victim)
  /\ LET sl2 == NextIteration([sweep[s] EXCEPT !.victim = 0])
     IN /\ sweep' = [sweep EXCEPT ![s] = sl2]
        /\ lastEvent' = Outcome(sl2, "done")
  /\ UNCHANGED <<users, upVars, nextId, ever, timerVars, sent, clockVars>>

Next ==
  \/ ClientReady
  \/ \E s \in Slots : Tick(s)
  \/ \E s \in Slots : FetchOk(s)
  \/ \E s \in Slots : FetchFail(s)
  \/ \E s \in Slots : FindOne(s)
  \/ \E s \in Slots : CreateOk(s)
  \/ \E s \in Slots : CreateFail(s)
  \/ \E s \in Slots : SendOk(s)
  \/ \E s \in Slots : SendFail(s)
  \/ \E s \in Slots : FindAll(s)
  \/ \E s \in Slots : Destroy(s)

Spec == Init /\ [][Next]_vars

\* The behaviours of Spec in which every sweep ends before the next firing
\* of the timer.  Score.create cannot reject in them: findOne has just found
\* no row for the result, and no other sweep creates rows in between.
TickAlone(s) == (\A o \in Slots : ~Running(o)) /\ Tick(s)

NextSeq ==
  \/ ClientReady
  \/ \E s \in Slots : TickAlone(s)
  \/ \E s \in Slots : FetchOk(s)
  \/ \E s \in Slots : FetchFail(s)
  \/ \E s \in Slots : FindOne(s)
  \/ \E s \in Slots : CreateOk(s)
  \/ \E s \in Slots : SendOk(s)
  \/ \E s \in Slots : SendFail(s)
  \/ \E s \in Slots : FindAll(s)
  \/ \E s \in Slots : Destroy(s)

SpecSeq == Init /\ [][NextSeq]_vars

\* ------------------------------------------------------------- restarts
\* The process is stopped and started again: the invocations in flight are
\* gone, the module runs from its top, the task is registered again at the
\* next ClientReady.  scores.sqlite is a file: sequelize.sync() creates the
\* table only if it is missing, so the rows and the AUTOINCREMENT counter
\* are the ones the stopped process left.
Restart ==
  /\ boot.n < MaxRestarts
  /\ boot' = [n |-> boot.n + 1, rows |-> store]
  /\ sweep' = [s \in Slots |-> IdleSlot]
  /\ scheduled' = FALSE
  /\ lastEvent' = "none"
  /\ UNCHANGED <<users, upVars, dbVars, ticks, sent, sec, since, gap, lastCreate,
                 score, embed, fired>>

NextRestart ==
  \/ NextSeq
  \/ Restart

SpecRestart == Init /\ [][NextRestart]_vars

\* ------------------------------------------------------------- the timer
\* const ratelimit = users.length * modes.length * 2
ratelimit == users * ModeCount * 2

\* the seconds field "*/ratelimit": every ratelimit-th value of 0..59
CronMatches(second) == second % ratelimit = 0

\* getUserScores calls of one invocation: one per user and mode
FetchesPerSweep == users * (LastMode + 1)

sweepVars == <<upVars, dbVars, ticks, sweep, lastEvent, sent>>

InitClock ==
  /\ users \in 1..RosterSize
  /\ played = [u \in 1..users |-> [m \in Modes |-> 0]]
  /\ newPlays = 0
  /\ store = {}
  /\ ever = {}
  /\ nextId = 1
  /\ scheduled = FALSE
  /\ ticks = 0
  /\ sweep = [s \in Slots |-> IdleSlot]
  /\ lastEvent = "none"
  /\ sent = <<>>
  /\ sec \in 0..(SecondsPerMinute - 1)
  /\ since = -1
  /\ gap = 0
  /\ lastCreate = NoCreate
  /\ boot = NoBoot
  /\ score = NoScore
  /\ embed = NoEmbed
  /\ fired = 0

\* cron.schedule(`*/${ratelimit} * * * * *`, ...) at ClientReady
ClockReady ==
  /\ ~scheduled
  /\ scheduled' = TRUE
  /\ UNCHANGED <<users, sweepVars, clockVars>>

\* a second passes in which the expression matches: the timer fires
SecondFires ==
  /\ scheduled
  /\ sec' = (sec + 1) % SecondsPerMinute
  /\ CronMatches(sec')
  /\ gap' = IF since = -1 THEN 0 ELSE since + 1
  /\ since' = 0
  /\ fired' = IF sec' = 0 THEN 1 ELSE fired + 1
  /\ UNCHANGED <<users, scheduled, sweepVars, lastCreate, boot, score, embed>>

\* a second passes in which the expression does not match
SecondPasses ==
  /\ scheduled
  /\ sec' = (sec + 1) % SecondsPerMinute
  /\ ~CronMatches(sec')
  /\ since' = IF since = -1 THEN -1 ELSE since + 1
  /\ fired' = IF sec' = 0 THEN 0 ELSE fired
  /\ UNCHANGED <<users, scheduled, sweepVars, gap, lastCreate, boot, score, embed>>

NextClock ==
  \/ ClockReady
  \/ SecondFires
  \/ SecondPasses

SpecClock == InitClock /\ [][NextClock]_vars

\* ------------------------------------------------- the Score table alone
\* Score.create called with any userId, scoreId and gamemode
MaxScoreId == 3

CreateInputs ==
  {[id |-> i, user |-> UserId(u), mode |-> ModeName(m)] :
     i \in 1..MaxScoreId, u \in 1..2, m \in 0..1}

InitStore ==
  /\ users = 2
  /\ played = [u \in 1..users |-> [m \in Modes |-> 0]]
  /\ newPlays = 0
  /\ store = {}
  /\ ever = {}
  /\ nextId = 1
  /\ scheduled = FALSE
  /\ ticks = 0
  /\ sweep = [s \in Slots |-> IdleSlot]
  /\ lastEvent = "none"
  /\ sent = <<>>
  /\ sec = 0
  /\ since = -1
  /\ gap = 0
  /\ lastCreate = NoCreate
  /\ boot = NoBoot
  /\ score = NoScore
  /\ embed = NoEmbed
  /\ fired = 0

storeFrame ==
  <<users, upVars, timerVars, sweep, lastEvent, sent, sec, since, gap, boot, score, embed,
    fired>>

\* Score.create(r) resolves
TableCreateOk(r) ==
  /\ ~Conflicts(store, r)
  /\ store' = store \cup {Row(nextId, r)}
  /\ ever' = ever \cup {Row(nextId, r)}
  /\ nextId' = nextId + 1
  /\ lastCreate' = [r |-> r, ok |-> TRUE]
  /\ UNCHANGED storeFrame

\* Score.create(r) rejects: SequelizeUniqueConstraintError on scoreId
TableCreateFail(r) ==
  /\ Conflicts(store, r)
  /\ lastCreate' = [r |-> r, ok |-> FALSE]
  /\ UNCHANGED <<storeFrame, dbVars>>

NextStore ==
  \/ \E r \in CreateInputs : TableCreateOk(r)
  \/ \E r \in CreateInputs : TableCreateFail(r)

SpecStore == InitStore /\ [][NextStore]_vars

\* ------------------------------------------------- rendering one result
\* score.rank as the score source sends it
Ranks == {"XH", "X", "SH", "S", "A", "B", "C", "D", "F"}

colors ==
  [X |-> "#de31ae", S |-> "#02b5c3", A |-> "#88da20", B |-> "#ebbd48",
   C |-> "#ff8e5d", D |-> "#ff5a5a"]

\* score.accuracy in hundredths: 0, or a value the score source computed
RawAccuracies == {0, 50}

Counters == {Absent} \cup (0..MaxHits)

\* x ?? 0
OrZero(x) == IF x = Absent THEN 0 ELSE x

fixScore(sc) ==
  [sc EXCEPT !.statistics =
     [miss |-> OrZero(sc.statistics.miss), meh |-> OrZero(sc.statistics.meh),
      ok |-> OrZero(sc.statistics.ok), good |-> OrZero(sc.statistics.good),
      perfect |-> OrZero(sc.statistics.perfect), great |-> OrZero(sc.statistics.great)]]

\* score.beatmap.mode.includes("mania")
IsMania(mode) == mode = "mania"

\* total_hits of the non-mania branch, with good and perfect counted as well
TotalHitsAllSix(st, mode) ==
  st.perfect + st.good + st.meh + st.great + st.ok + st.miss

\* const total_hits of either branch
TotalHits(st, mode) ==
  IF IsMania(mode)
  THEN st.perfect + st.good + st.meh + st.great + st.ok + st.miss
  ELSE st.meh + st.great + st.ok + st.miss

\* the numerator of either branch
HitValue(st, mode) ==
  IF IsMania(mode)
  THEN (50 * st.meh) + (100 * st.ok) + (200 * st.good) + (300 * st.great)
         + (300 * st.perfect)
  ELSE (st.great * 300) + (st.ok * 100) + (st.meh * 50)

\* The number calculateAccuracy returns, as the fraction num / den.  den = 0
\* stands for the result of 0 / 0, which is NaN: with total_hits = 0 every
\* counter of the numerator is 0 as well.
calculateAccuracy(sc) ==
  IF sc.accuracy # 0 THEN [num |-> sc.accuracy, den |-> 100]
  ELSE [num |-> HitValue(sc.statistics, sc.mode),
        den |-> TotalHits(sc.statistics, sc.mode) * 300]

NaNText == -1

\* (calculateAccuracy(score) * 100).toFixed(2): the percentage in hundredths,
\* rounded to the nearest; NaN.toFixed(2) is "NaN"
AccuracyField(acc) ==
  IF acc.den = 0 THEN NaNText
  ELSE ((2 * acc.num * 10000) + acc.den) \div (2 * acc.den)

\* setColor(undefined): the builder validates its argument and throws
Thrown == [kind |-> "thrown"]

\* createGenericScoreEmbed / createManiaScoreEmbed: the fields are built
\* first, setColor(colors[score.rank]) is called after them
createScoreEmbed(sc) ==
  IF sc.rank \notin DOMAIN colors THEN Thrown
  ELSE [kind |-> "embed", acc |-> calculateAccuracy(sc),
        text |-> AccuracyField(calculateAccuracy(sc)), color |-> colors[sc.rank]]

InitRender ==
  /\ users = 1
  /\ played = [u \in 1..users |-> [m \in Modes |-> 0]]
  /\ newPlays = 0
  /\ store = {}
  /\ ever = {}
  /\ nextId = 1
  /\ scheduled = TRUE
  /\ ticks = 0
  /\ sweep = [s \in Slots |-> IdleSlot]
  /\ lastEvent = "none"
  /\ sent = <<>>
  /\ sec = 0
  /\ since = -1
  /\ gap = 0
  /\ lastCreate = NoCreate
  /\ boot = NoBoot
  /\ score \in [accuracy : RawAccuracies, mode : {ModeName(m) : m \in Modes},
                rank : Ranks, statistics : [DOMAIN NoStatistics -> Counters]]
  /\ embed = NoEmbed
  /\ fired = 0

renderFrame ==
  <<users, upVars, dbVars, timerVars, sweep, lastEvent, sent, sec, since, gap,
    lastCreate, boot, score, fired>>

\* lines 125-128 for a result that was just created: the embed is built and
\* channel.send resolves
Notify ==
  /\ embed = NoEmbed
  /\ createScoreEmbed(fixScore(score)).kind = "embed"
  /\ embed' = [createScoreEmbed(fixScore(score)) EXCEPT !.kind = "sent"]
  /\ UNCHANGED renderFrame

\* lines 125-128: the embed builder throws, nothing catches it and the
\* callback rejects
NotifyThrows ==
  /\ embed = NoEmbed
  /\ createScoreEmbed(fixScore(score)).kind = "thrown"
  /\ embed' = [kind |-> "callbackRejected"]
  /\ UNCHANGED renderFrame

NextRender ==
  \/ Notify
  \/ NotifyThrows

SpecRender == InitRender /\ [][NextRender]_vars

\* ------------------------------------------------------------------ claims
LastPair(sl) == sl.u = users /\ sl.mode = LastMode

UserIds == {UserId(u) : u \in 1..users}
ModeNames == {ModeName(m) : m \in Modes}

\* the rows of a partition with fewer than Keep rows of it above them
TopKeep(rows) == {row \in rows : Cardinality({o \in rows : o.id > row.id}) < Keep}

\* invocation s finishes the iteration for one result in this step
IterationEnds(s) ==
  /\ sweep[s].pc \in {"findAll", "destroy"}
  /\ sweep'[s].pc \notin {"findAll", "destroy"}

\* C1: every result, identified by (player id, mode, result id), is
\* dispatched to the channel at most once, whatever the ticks and the lists
\* the score source returns.
C1_DispatchedAtMostOnce == \A r \in DOMAIN sent : sent[r] <= 1

\* C2: after every ingestion iteration, every (player, mode) pair has at most
\* Keep stored rows, and they are exactly the rows with the Keep highest ids
\* ever created for that pair.
C2_RetentionAfterIteration ==
  [][\A s \in Slots : IterationEnds(s) =>
       \A uid \in UserIds, gm \in ModeNames :
         /\ Cardinality(Partition(store', uid, gm)) <= Keep
         /\ Partition(store', uid, gm) = TopKeep(Partition(ever', uid, gm))]_vars

\* C3: at most one invocation of the timer callback is in flight at any time.
C3_OneSweepAtATime == Cardinality({s \in Slots : Running(s)}) <= 1

\* C4: a sweep that is waiting for the fetch of a pair other than the last
\* one is still running after the fetch settles, whether it resolved or
\* rejected: a fetch failure does not end the sweep before the remaining pairs.
C4_FetchFailureContained ==
  [][\A s \in Slots :
       (sweep[s].pc = "fetch" /\ ~LastPair(sweep[s])) => sweep'[s].pc # "idle"]_vars

\* C5: a sweep that is inserting, rendering or dispatching a result is still
\* running after that step settles, whether it succeeded or failed: the
\* failure is contained to the result and the sweep goes on to the prune step.
C5_ResultFailureContained ==
  [][\A s \in Slots :
       sweep[s].pc \in {"create", "send"} => sweep'[s].pc # "idle"]_vars

\* the last invocation that ended failed (it rejected, or it found no
\* channel), and none has ended since
AfterFailure ==
  lastEvent \in {"rejected", "startedAfterRejected", "skipped", "startedAfterSkipped"}

SkippedTick == ticks' = ticks + 1 /\ lastEvent' = "skipped"

\* C7: a tick that finds the channel missing fetches nothing, leaves the
\* table unchanged and dispatches nothing (no invocation runs without a
\* channel), and the next tick that finds a channel starts a sweep at the
\* first pair.
C7_SkippedTick ==
  [][/\ \A s \in Slots : sweep'[s].pc # "idle" => sweep'[s].channelOk
     /\ SkippedTick => UNCHANGED <<upVars, dbVars, sent, sweep>>
     /\ (ticks' = ticks + 1 /\ lastEvent = "skipped" /\ lastEvent' # "skipped") =>
          \E s \in Slots :
            /\ sweep[s].pc = "idle"
            /\ sweep'[s].pc = "fetch" /\ sweep'[s].u = 1 /\ sweep'[s].mode = 0]_vars

\* a sweep was started by the first tick with a channel after a skipped tick
C7_Witness == lastEvent = "startedAfterSkipped" /\ \E s \in Slots : Running(s)

\* C8: the time between two consecutive firings of the timer is
\* users.length * 4 * 2 seconds.
C8_TickInterval == gap # 0 => gap = users * ModeCount * 2

\* C9: no two rows share a (player id, mode, result id) triple; creating a
\* triple that exists fails and leaves the table unchanged; creating a triple
\* that does not exist succeeds and adds a row, also when another row has the
\* same result id under another player or mode.
C9_InsertContract ==
  [][/\ \A a, b \in store' :
          (a.userId = b.userId /\ a.scoreId = b.scoreId /\ a.gamemode = b.gamemode)
            => a = b
     /\ lastCreate' # lastCreate =>
          IF Exists(store, lastCreate'.r)
          THEN ~lastCreate'.ok /\ store' = store
          ELSE /\ lastCreate'.ok
               /\ Exists(store', lastCreate'.r)
               /\ Cardinality(store') = Cardinality(store) + 1]_vars

\* C10: the prune step applied to the partition of the sweep's current
\* result, holding n rows, leaves the min(n, Keep) rows with the highest
\* ids, and applying it again changes nothing.
C10_PruneToKeep ==
  \A s \in Slots : sweep[s].pc = "findAll" =>
    LET uid == UserId(sweep[s].u)
        gm == Current(s).mode
        part == Partition(store, uid, gm)
        once == PruneOnce(store, uid, gm)
    IN /\ Cardinality(Partition(once, uid, gm)) = Min(Cardinality(part), Keep)
       /\ Partition(once, uid, gm) = TopKeep(part)
       /\ PruneOnce(once, uid, gm) = once

\* C11: a restart keeps every row with its id (and the id counter), and no
\* result whose row was in the table at the restart is dispatched after it.
C11_RestartKeepsStore ==
  [][/\ boot'.n # boot.n =>
          /\ store' = store
          /\ nextId' = nextId
          /\ \A row \in store : \E kept \in store' : kept = row
     /\ \A r \in DOMAIN sent' :
          (boot.n > 0 /\ Count(sent', r) > Count(sent, r)) => ~Exists(boot.rows, r)]_vars

\* a counter with an absent one read as 0
Given(x) == IF x = Absent THEN 0 ELSE x

\* the hits the formula of the score's mode counts
FormulaHits ==
  LET st == score.statistics
  IN IF score.mode = "mania"
     THEN Given(st.meh) + Given(st.ok) + Given(st.good) + Given(st.great)
            + Given(st.perfect) + Given(st.miss)
     ELSE Given(st.great) + Given(st.ok) + Given(st.meh) + Given(st.miss)

\* the weighted hits of the formula of the score's mode
FormulaValue ==
  LET st == score.statistics
  IN IF score.mode = "mania"
     THEN 50 * Given(st.meh) + 100 * Given(st.ok) + 200 * Given(st.good)
            + 300 * Given(st.great) + 300 * Given(st.perfect)
     ELSE 300 * Given(st.great) + 100 * Given(st.ok) + 50 * Given(st.meh)

\* every hit is a great (or, in mania, a great or a perfect)
AllBest ==
  LET st == score.statistics
  IN /\ FormulaHits > 0
     /\ Given(st.great) + (IF score.mode = "mania" THEN Given(st.perfect) ELSE 0)
          = FormulaHits

\* C12: a result with raw accuracy 0 and no hits in its mode's formula is
\* never dispatched with an undefined accuracy: what is sent shows 0.
C12_NoUndefinedAccuracy ==
  (embed.kind = "sent" /\ score.accuracy = 0 /\ FormulaHits = 0) => embed.text = 0

\* C13: the accuracy rendered is the raw accuracy when that is nonzero;
\* otherwise, with hits, it is the weighted hits over 300 times the hits of
\* the mode's formula, it lies in [0, 1] and it is 1 when every hit is best.
C13_AccuracyFormula ==
  (embed.kind = "sent" /\ (score.accuracy # 0 \/ FormulaHits > 0)) =>
    LET a == embed.acc
    IN /\ a.den > 0
       /\ score.accuracy # 0 => a.num * 100 = score.accuracy * a.den
       /\ score.accuracy = 0 =>
            /\ a.num * (300 * FormulaHits) = FormulaValue * a.den
            /\ 0 <= a.num /\ a.num <= a.den
            /\ AllBest => a.num = a.den

\* a non-mania score without raw accuracy was rendered: one great, one miss
\* and a good that its formula does not count, accuracy 1/2
C13_Witness ==
  /\ embed.kind = "sent"
  /\ score.accuracy = 0
  /\ score.mode # "mania"
  /\ Given(score.statistics.great) = 1
  /\ Given(score.statistics.miss) = 1
  /\ Given(score.statistics.good) = 1
  /\ embed.acc.num * 2 = embed.acc.den

Grades == {"X", "S", "A", "B", "C", "D"}

\* C14: a result with one of the six grades is rendered with that grade's
\* color; a result with any other grade gives an error for that result only
\* (the result is skipped and the sweep goes on) and is never sent.
C14_UnknownGrade ==
  embed.kind # "none" =>
    IF score.rank \in Grades
    THEN embed.kind = "sent" /\ embed.color = colors[score.rank]
    ELSE embed.kind = "resultSkipped"

\* the rows of table st that hold the triple of result r
RowsFor(st, r) ==
  {row \in st : row.userId = r.user /\ row.gamemode = r.mode /\ row.scoreId = r.id}

\* invocation s takes a step
Steps(s) == sweep'[s] # sweep[s]

\* C15: when an invocation is about to create a result that another one
\* created after both had found it missing, its create fails: no row is
\* added, nothing is dispatched by it, and the table never holds two rows
\* for one triple.
C15_RaceOneInsert ==
  [][/\ \A row \in store' :
          Cardinality(RowsFor(store', [id |-> row.scoreId, user |-> row.userId,
                                       mode |-> row.gamemode])) = 1
     /\ \A s \in Slots :
          (sweep[s].pc = "create" /\ RowsFor(store, Current(s)) # {} /\ Steps(s)) =>
            /\ store' = store
            /\ sent' = sent
            /\ sweep'[s].pc # "send"
            /\ lastCreate' = [r |-> Current(s), ok |-> FALSE]]_vars

\* the loser's create was rejected: one row holds the result, and it was
\* dispatched at most once
C15_Witness ==
  /\ lastCreate.r.id # 0
  /\ ~lastCreate.ok
  /\ Cardinality(RowsFor(store, lastCreate.r)) = 1
  /\ Count(sent, lastCreate.r) <= 1
  /\ \E s \in Slots : sweep[s].pc \in {"send", "findAll"} /\ Current(s) = lastCreate.r

\* sequence a is the start of sequence b
IsPrefix(a, b) == Len(a) <= Len(b) /\ \A i \in 1..Len(a) : a[i] = b[i]

SamePair(a, b) == a.u = b.u /\ a.mode = b.mode

\* invocation s returns in this step, no step of it having failed
Completes(s) == Running(s) /\ sweep'[s].pc = "idle" /\ lastEvent' = "done"

\* C16: in a sweep with a channel and without a failing step, each result
\* that is not in the table when it is checked is created and posted once,
\* in the order of the fetched list, and the sweep returns after the last
\* result of the last pair with all of them posted.
C16_AbsentResultsPosted ==
  [][\A s \in Slots :
       /\ (sweep[s].pc = "findOne" /\ Steps(s) /\ sweep'[s].pc # "idle") =>
            sweep'[s].absent =
              IF RowsFor(store, Current(s)) = {} THEN Append(sweep[s].absent, Current(s))
              ELSE sweep[s].absent
       /\ sweep'[s].pc # "idle" =>
            /\ sweep'[s].channelOk
            /\ IsPrefix(sweep'[s].posted, sweep'[s].absent)
            /\ Len(sweep'[s].absent) <= Len(sweep'[s].posted) + 1
            /\ \A i, j \in 1..Len(sweep'[s].absent) :
                 sweep'[s].absent[i] = sweep'[s].absent[j] => i = j
       /\ (sweep'[s].pc # "idle" /\ sweep'[s].posted # sweep[s].posted) =>
            /\ sweep'[s].posted = Append(sweep[s].posted, Current(s))
            /\ RowsFor(ever, Current(s)) # {}
            /\ Count(sent', Current(s)) = Count(sent, Current(s)) + 1
       /\ (sweep[s].pc # "fetch" /\ sweep'[s].pc \notin {"idle", "fetch"}
             /\ sweep'[s].k # sweep[s].k) =>
            /\ SamePair(sweep'[s], sweep[s])
            /\ sweep'[s].k = sweep[s].k + 1
       /\ Completes(s) =>
            /\ sweep[s].posted = sweep[s].absent
            /\ LastPair(sweep[s])
            /\ sweep[s].k = Len(sweep[s].scores)]_vars

\* a sweep found two results missing, posted both in list order, and returned
C16_Witness ==
  /\ lastEvent = "done"
  /\ \A s \in Slots : ~Running(s)
  /\ played[1][0] = 2
  /\ store = {Row(1, RawResult(1, 0, 2)), Row(2, RawResult(1, 0, 1))}
  /\ Count(sent, RawResult(1, 0, 1)) = 1
  /\ Count(sent, RawResult(1, 0, 2)) = 1
  /\ ticks = 1

\* invocation s comes to step pc in this step
Enters(s, pc) == sweep'[s].pc = pc /\ sweep[s].pc # pc

SameResult(s) ==
  /\ SamePair(sweep'[s], sweep[s])
  /\ sweep'[s].k = sweep[s].k
  /\ sweep'[s].scores = sweep[s].scores

\* C17: a sweep does one thing at a time.  While it waits for a fetch it
\* processes no result; for each result it goes from the existence check to
\* the insert only if the triple was missing, to the dispatch only from an
\* insert that added the triple's row, and to the prune step either from the
\* dispatch or from a check that found the triple, without a dispatch.
C17_StepsInOrder ==
  [][/\ \A s \in Slots :
          /\ sweep'[s].pc = "fetch" => sweep'[s].scores = <<>> /\ sweep'[s].k = 0
          /\ Enters(s, "create") =>
               /\ sweep[s].pc = "findOne" /\ SameResult(s)
               /\ RowsFor(store, Current(s)) = {}
          /\ Enters(s, "send") =>
               /\ sweep[s].pc = "create" /\ SameResult(s)
               /\ RowsFor(store, Current(s)) = {}
               /\ Cardinality(RowsFor(store', Current(s))) = 1
               /\ sent' = sent
          /\ Enters(s, "findAll") =>
               /\ SameResult(s)
               /\ \/ sweep[s].pc = "send"
                  \/ /\ sweep[s].pc = "findOne"
                     /\ RowsFor(store, Current(s)) # {}
                     /\ sent' = sent
          /\ Enters(s, "destroy") => sweep[s].pc = "findAll" /\ SameResult(s)
     /\ sent' # sent =>
          \E s \in Slots :
            /\ sweep[s].pc = "send" /\ sweep'[s].pc = "findAll"
            /\ \A r \in DOMAIN sent' :
                 Count(sent', r) = Count(sent, r) + (IF r = Current(s) THEN 1 ELSE 0)]_vars

\* a result was dispatched after its insert, in the iteration that now prunes
C17_Witness ==
  \E s \in Slots :
    /\ sweep[s].pc = "destroy"
    /\ Len(sweep[s].posted) > 0
    /\ sweep[s].posted[Len(sweep[s].posted)] = Current(s)
    /\ lastCreate = [r |-> Current(s), ok |-> TRUE]
    /\ Count(sent, Current(s)) = 1

\* "an avg of 30 requests per minute"
RequestsPerMinute == 30

\* C18: with users.length * 4 fetches per sweep, the sweeps the timer
\* starts within one minute of the wall clock issue at most 30 fetches.
C18_FetchesPerMinute == fired * FetchesPerSweep <= RequestsPerMinute

\* the rows of table st of one (player, mode) pair
RowsOf(st, uid, gm) == {row \in st : row.userId = uid /\ row.gamemode = gm}

\* C19: while an invocation ingests a result of (player p, mode m), its
\* steps (insert, prune) change no row of any other (player, mode) pair, and
\* the row the prune step deletes belongs to (p, m).
C19_OtherPairsUntouched ==
  [][\A s \in Slots :
       (Steps(s) /\ sweep[s].pc \in {"findOne", "create", "send", "findAll", "destroy"}) =>
         LET p == UserId(sweep[s].u)
             m == Current(s).mode
         IN /\ \A uid \in UserIds, gm \in ModeNames :
                 (uid # p \/ gm # m) => RowsOf(store', uid, gm) = RowsOf(store, uid, gm)
            /\ (store \ store') \subseteq RowsOf(store, p, m)
            /\ (store' \ store) \subseteq RowsOf(store', p, m)]_vars

\* a row of one pair was pruned while another pair had rows in the table
C19_Witness ==
  /\ \E row \in ever \ store : row.gamemode = "osu"
  /\ \E row \in store : row.gamemode # "osu"
  /\ lastEvent = "done"

====
